---- MODULE Spec2Model ----
(***************************************************************************)
(* Credential resolution and query execution of the Snowflake dashboard.   *)
(*                                                                         *)
(* Two modules are modelled: streamlit_app.py (the page script with its    *)
(* own _get_secrets / get_connection / run_query) and snowflake_client.py  *)
(* (a library with the same three functions, whose _get_secrets has no     *)
(* exception guards and tests isinstance(conns, dict)).                    *)
(*                                                                         *)
(* The configuration (secrets store and environment) is drawn in Init and  *)
(* stays fixed; a behaviour is a sequence of page evaluations of the app   *)
(* and of direct run_query calls into the client library.                  *)
(***************************************************************************)
EXTENDS Naturals, Sequences, FiniteSets

VARIABLES
    secrets,      \* st.secrets: [readable, snowflake, connections]
    env,          \* os.environ restricted to the SNOWFLAKE_* variables
    pc,           \* position of the running script / call
    caller,       \* who called run_query: "run", "preview", "client", "none"
    resolved,     \* what _get_secrets produced for the current call
    conn,         \* local `conn` of run_query: "unbound", "open", "closed"
    cur,          \* local `cur` of run_query: "unbound", "open", "closed"
    openConns,    \* number of warehouse connections acquired and not yet closed
    calls,        \* per evaluation: invocations of the external routines
    closeRaised,  \* per evaluation: which close routines raised
    pending,      \* outcome of the try body, in flight through the finally block
    outcome,      \* what run_query delivered to its caller
    page          \* what the page shows: [blocking, inline, stopped]

vars == <<secrets, env, pc, caller, resolved, conn, cur, openConns, calls,
          closeRaised, pending, outcome, page>>

-----------------------------------------------------------------------------
(* Bounds of the model *)

\* longest connections table enumerated
MaxConns == 2
\* cap on leaked connections (never reached unless a close is skipped)
MaxOpen == 2
\* number of rows a non-empty result holds
SomeRows == 2

-----------------------------------------------------------------------------
(* Values *)

None == "None"

\* the keys get_connection reads with s.get(...) and tier 3 fills
Fields == {"user", "password", "account", "warehouse", "database", "schema", "role"}

Required == {"user", "password", "account"}

\* Python truthiness of a str-or-None value
Truthy(v) == v # None /\ v # ""

NoFields == [f \in Fields |-> None]

\* a mapping whose keys `fs` are present, every value marked with its source
Rec(src, fs) == [f \in Fields |-> IF f \in fs THEN src ELSE None]

\* A value stored under a key of the secrets store:
\*   "absent"  - the key does not exist
\*   "scalar"  - a string or number where a table was expected
\*   "mapping" - a table of fields
Absent == [tag |-> "absent", fields |-> NoFields]
Scalar == [tag |-> "scalar", fields |-> NoFields]
Mapping(src, fs) == [tag |-> "mapping", fields |-> Rec(src, fs)]

\* shapes of a section: complete, or with the password missing
Shapes == {Fields, {"user", "account"}}

Tier1Values == {Absent, Scalar} \cup {Mapping("secrets.snowflake", fs) : fs \in Shapes}

ConnNames == {"snowflake", "alpha", "beta"}

\* the mark the fields of connections.<n> carry
EntrySource(n) ==
    CASE n = "snowflake" -> "connections.snowflake"
      [] n = "alpha" -> "connections.alpha"
      [] n = "beta" -> "connections.beta"

EntryValues(n) == {Scalar, Mapping(EntrySource(n), Fields)}

\* sequences of distinct names of length n
NameSeqs(n) == {s \in [1..n -> ConnNames] : \A i, j \in 1..n : s[i] = s[j] => i = j}

\* tables of n entries; the order of the sequence is the table's natural order
TablesOf(n) ==
    UNION {{[i \in 1..n |-> [name |-> ns[i], val |-> vs[i]]] :
                vs \in {v \in [1..n -> UNION {EntryValues(m) : m \in ConnNames}] :
                            \A i \in 1..n : v[i] \in EntryValues(ns[i])}} :
           ns \in NameSeqs(n)}

Tables == UNION {TablesOf(n) : n \in 0..MaxConns}

\* st.secrets["connections"]:
\*   "dict"    - a table that is a plain dict instance
\*   "mapping" - a table that is a Mapping but no dict (what the secrets store
\*               hands out for a nested table)
ConnValues ==
    {[tag |-> "absent", entries |-> <<>>], [tag |-> "scalar", entries |-> <<>>]}
    \cup {[tag |-> k, entries |-> t] : k \in {"dict", "mapping"}, t \in Tables}

\* A store that cannot be read (no secrets file, a parse error) raises on every
\* access, so its contents are never seen: one value stands for all of them.
SecretsValues ==
    [readable : {TRUE}, snowflake : Tier1Values, connections : ConnValues]
    \cup {[readable |-> FALSE, snowflake |-> Absent,
           connections |-> [tag |-> "absent", entries |-> <<>>]]}

\* os.getenv gives None for an unset variable and "" for one set to nothing
EnvValue == {None, "", "env"}

EnvValues ==
    {e \in [Fields -> EnvValue] : \A f \in Fields \ Required : e[f] = "env"}

-----------------------------------------------------------------------------
(* _get_secrets *)

Ok(v) == [kind |-> "ok", val |-> v, keys |-> <<>>]

\* the tier raised or held nothing: go on with the next tier
Nothing == [kind |-> "none", val |-> Absent, keys |-> <<>>]

\* an exception of the secrets store leaving _get_secrets
Raised == [kind |-> "raised", val |-> Absent, keys |-> <<>>]

\* RuntimeError("Snowflake credentials not found. ...")
NotFound(ks) == [kind |-> "config_error", val |-> Absent, keys |-> ks]

HasEntry(t, n) == \E i \in DOMAIN t : t[i].name = n

Entry(t, n) == (CHOOSE i \in DOMAIN t : t[i].name = n)

\* dict(x): a table converts, a scalar raises
DictOf(v) == IF v.tag = "mapping" THEN Ok(v) ELSE Nothing

\* list(st.secrets.keys()), [] when the store raises
available_keys(s) ==
    IF ~s.readable THEN <<>>
    ELSE (IF s.snowflake.tag # "absent" THEN <<"snowflake">> ELSE <<>>)
         \o (IF s.connections.tag # "absent" THEN <<"connections">> ELSE <<>>)

\* tier 3 of both modules: the environment, accepted when user, password and
\* account are all truthy
\* (variant: only the user is looked at)
Tier3OnlyUser(e, ks) ==
    IF Truthy(e["user"]) THEN Ok([tag |-> "mapping", fields |-> e]) ELSE NotFound(ks)

\* (variant: `or` where the code has `and`)
Tier3Or(e, ks) ==
    IF Truthy(e["user"]) \/ Truthy(e["password"]) \/ Truthy(e["account"])
    THEN Ok([tag |-> "mapping", fields |-> e])
    ELSE NotFound(ks)

Tier3(e, ks) ==
    IF Truthy(e["user"]) /\ Truthy(e["password"]) /\ Truthy(e["account"])
    THEN Ok([tag |-> "mapping", fields |-> e])
    ELSE NotFound(ks)

\* streamlit_app.py tier 1: any exception is swallowed
app_tier1(s) ==
    IF ~s.readable THEN Nothing
    ELSE IF s.snowflake.tag # "absent" THEN DictOf(s.snowflake)
    ELSE Nothing

\* streamlit_app.py tier 2: any exception is swallowed
app_tier2(s) ==
    LET c == s.connections IN
    IF ~s.readable THEN Nothing
    ELSE IF c.tag = "absent" THEN Nothing
    ELSE IF c.tag = "scalar" THEN Nothing
    ELSE IF HasEntry(c.entries, "snowflake")
         THEN DictOf(c.entries[Entry(c.entries, "snowflake")].val)
    ELSE IF c.entries # <<>> THEN DictOf(c.entries[1].val)
    ELSE Nothing

\* (variant: tier 1 and tier 2 without their try/except)
app_get_secrets_unguarded(s, e) ==
    LET t1 == app_tier1(s)
        t2 == app_tier2(s)
    IN  IF ~s.readable \/ s.snowflake.tag = "scalar" THEN Raised
        ELSE IF t1.kind = "ok" THEN t1
        ELSE IF s.connections.tag = "scalar" THEN Raised
        ELSE IF t2.kind = "ok" THEN t2
        ELSE Tier3(e, available_keys(s))

app_get_secrets(s, e) ==
    LET t1 == app_tier1(s)
        t2 == app_tier2(s)
    IN  IF t1.kind = "ok" THEN t1
        ELSE IF t2.kind = "ok" THEN t2
        ELSE Tier3(e, available_keys(s))

\* snowflake_client.py: no guards, values handed out as they are, and the
\* connections table is used only when it is a dict instance
client_get_secrets(s, e) ==
    LET c == s.connections IN
    IF ~s.readable THEN Raised
    ELSE IF s.snowflake.tag # "absent" THEN Ok(s.snowflake)
    ELSE IF c.tag = "dict" /\ HasEntry(c.entries, "snowflake")
         THEN Ok(c.entries[Entry(c.entries, "snowflake")].val)
    ELSE IF c.tag = "dict" /\ c.entries # <<>> THEN Ok(c.entries[1].val)
    ELSE Tier3(e, <<>>)

-----------------------------------------------------------------------------
(* State of one page evaluation / one library call *)

NoCalls == [run_query |-> 0, resolve |-> 0, connect |-> 0, cursor |-> 0,
            execute |-> 0, fetch |-> 0, curClose |-> 0, connClose |-> 0]

NoRaise == [cur |-> FALSE, conn |-> FALSE]

\* outcomes of run_query: nothing yet, a DataFrame of `rows` rows, or an
\* exception raised at `at`
NoOutcome == [kind |-> "none", at |-> "none", rows |-> 0]
Result(n) == [kind |-> "result", at |-> "none", rows |-> n]
Error(at) == [kind |-> "error", at |-> at, rows |-> 0]

BlankPage == [blocking |-> FALSE, inline |-> "none", stopped |-> FALSE]

NotResolved == [kind |-> "none", val |-> Absent, keys |-> <<>>]

Init ==
    /\ secrets \in SecretsValues
    /\ env \in EnvValues
    /\ pc = "idle"
    /\ caller = "none"
    /\ resolved = NotResolved
    /\ conn = "unbound"
    /\ cur = "unbound"
    /\ openConns = 0
    /\ calls = NoCalls
    /\ closeRaised = NoRaise
    /\ pending = NoOutcome
    /\ outcome = NoOutcome
    /\ page = BlankPage

\* a new evaluation starts from fresh locals and a fresh page
FreshLocals ==
    /\ conn' = "unbound"
    /\ cur' = "unbound"
    /\ closeRaised' = NoRaise
    /\ pending' = NoOutcome
    /\ outcome' = NoOutcome

Fresh == FreshLocals /\ resolved' = NotResolved

Between == pc \in {"idle", "ended"}

-----------------------------------------------------------------------------
(* streamlit_app.py, module level *)

\* (variant: the gate also accepts complete environment variables)
secrets_available_or_env(s, e) ==
    \/ s.readable /\ (s.snowflake.tag # "absent" \/ s.connections.tag # "absent")
    \/ \A f \in Required : Truthy(e[f])

\* (variant: a store that raises counts as available)
secrets_available_on_error(s, e) ==
    ~s.readable \/ s.snowflake.tag # "absent" \/ s.connections.tag # "absent"

\* lines 100-103: the gate looks at the keys of the secrets store only; a store
\* that raises counts as not available.  The environment `e` is not read.
secrets_available(s, e) ==
    s.readable /\ (s.snowflake.tag # "absent" \/ s.connections.tag # "absent")

\* lines 105-109: st.error(...) and st.stop()
PageLoadBlocked ==
    /\ Between
    /\ ~secrets_available(secrets, env)
    /\ Fresh
    /\ calls' = NoCalls
    /\ caller' = "none"
    /\ page' = [blocking |-> TRUE, inline |-> "none", stopped |-> TRUE]
    /\ pc' = "ended"
    /\ UNCHANGED <<secrets, env, openConns>>

\* lines 111-120 / 135-138: the widgets, then run_query is entered from the
\* branch the button selects
PageLoad(button) ==
    /\ Between
    /\ secrets_available(secrets, env)
    /\ Fresh
    /\ calls' = [NoCalls EXCEPT !.run_query = 1]
    /\ caller' = IF button THEN "run" ELSE "preview"
    /\ page' = BlankPage
    /\ pc' = "get_connection"
    /\ UNCHANGED <<secrets, env, openConns>>

\* a caller of snowflake_client.run_query
ClientCall ==
    /\ Between
    /\ Fresh
    /\ calls' = [NoCalls EXCEPT !.run_query = 1]
    /\ caller' = "client"
    /\ page' = BlankPage
    /\ pc' = "get_connection"
    /\ UNCHANGED <<secrets, env, openConns>>

\* the module a caller's code lives in
ModuleOf(who) ==
    IF who \in {"client", "client_get_secrets"} THEN "snowflake_client"
    ELSE "streamlit_app"

\* the _get_secrets that `who` reaches
get_secrets(who, s, e) ==
    IF ModuleOf(who) = "snowflake_client" THEN client_get_secrets(s, e)
    ELSE app_get_secrets(s, e)

\* _get_secrets() of either module called on its own, as a unit test does
GetSecrets(who) ==
    /\ Between
    /\ FreshLocals
    /\ resolved' = get_secrets(who, secrets, env)
    /\ calls' = [NoCalls EXCEPT !.resolve = 1]
    /\ caller' = who
    /\ page' = BlankPage
    /\ pc' = "ended"
    /\ UNCHANGED <<secrets, env, openConns>>

-----------------------------------------------------------------------------
(* get_connection and run_query (the same text in both modules) *)

\* (variant: the closes follow the try body instead of sitting in a finally)
FinallyOnSuccess(p) == IF p.kind = "result" THEN "close_cur" ELSE "return"

\* where control goes when the try body is left with outcome `p`: the finally
\* block runs on every exit
Finally(p) == "close_cur"

\* (variant: both closes share one try, a raise in the first skips the second)
AfterCursorCloseShared(raised) == IF raised THEN "return" ELSE "close_conn"

\* where control goes after cur.close(), whether or not it raised: the two
\* closes have a try of their own each
AfterCursorClose(raised) == "close_conn"

\* (variant: the closes are not guarded, their exception replaces the outcome)
DeliveredMasked(p, raised) == IF raised.cur \/ raised.conn THEN Error("close") ELSE p

\* what leaves run_query after the finally block: the outcome of the try body,
\* whatever the close routines did
Delivered(p, raised) == p

\* get_connection(): resolve the credentials, then connect with them.  It runs
\* before the try statement: an exception here leaves run_query directly.
GetConnection(ok) ==
    /\ pc = "get_connection"
    /\ LET r == get_secrets(caller, secrets, env) IN
       /\ resolved' = r
       /\ IF r.kind # "ok"
          THEN /\ pending' = Error(IF r.kind = "raised" THEN "lookup" ELSE "config")
               /\ calls' = [calls EXCEPT !.resolve = @ + 1]
               /\ pc' = "return"
               /\ UNCHANGED <<conn, openConns>>
          ELSE IF r.val.tag # "mapping"
          THEN \* s.get(...) on a value that is no mapping
               /\ pending' = Error("attribute")
               /\ calls' = [calls EXCEPT !.resolve = @ + 1]
               /\ pc' = "return"
               /\ UNCHANGED <<conn, openConns>>
          ELSE IF ok /\ openConns < MaxOpen
          THEN /\ conn' = "open"
               /\ openConns' = openConns + 1
               /\ calls' = [calls EXCEPT !.resolve = @ + 1, !.connect = @ + 1]
               /\ pc' = "cursor"
               /\ UNCHANGED pending
          ELSE /\ pending' = Error("connect")
               /\ calls' = [calls EXCEPT !.resolve = @ + 1, !.connect = @ + 1]
               /\ pc' = "return"
               /\ UNCHANGED <<conn, openConns>>
    /\ UNCHANGED <<secrets, env, caller, cur, closeRaised, outcome, page>>

\* cur = conn.cursor()
Cursor(ok) ==
    /\ pc = "cursor"
    /\ calls' = [calls EXCEPT !.cursor = @ + 1]
    /\ IF ok
       THEN cur' = "open" /\ pc' = "execute" /\ UNCHANGED pending
       ELSE pending' = Error("cursor") /\ pc' = Finally(Error("cursor"))
            /\ UNCHANGED cur
    /\ UNCHANGED <<secrets, env, caller, resolved, conn, openConns, closeRaised,
                   outcome, page>>

\* cur.execute(query) / cur.execute(query, params)
Execute(ok) ==
    /\ pc = "execute"
    /\ calls' = [calls EXCEPT !.execute = @ + 1]
    /\ IF ok
       THEN pc' = "fetch" /\ UNCHANGED pending
       ELSE pending' = Error("execute") /\ pc' = Finally(Error("execute"))
    /\ UNCHANGED <<secrets, env, caller, resolved, conn, cur, openConns,
                   closeRaised, outcome, page>>

\* df = cur.fetch_pandas_all(); return df
Fetch(ok, rows) ==
    /\ pc = "fetch"
    /\ calls' = [calls EXCEPT !.fetch = @ + 1]
    /\ LET p == IF ok THEN Result(rows) ELSE Error("fetch") IN
       pending' = p /\ pc' = Finally(p)
    /\ UNCHANGED <<secrets, env, caller, resolved, conn, cur, openConns,
                   closeRaised, outcome, page>>

\* finally: try: cur.close() except Exception: pass
\* With `cur` unbound the name lookup raises UnboundLocalError, which the
\* except clause swallows too.
CloseCursor(ok) ==
    /\ pc = "close_cur"
    /\ IF cur = "unbound"
       THEN UNCHANGED <<cur, calls, closeRaised>> /\ pc' = AfterCursorClose(TRUE)
       ELSE /\ cur' = "closed"
            /\ calls' = [calls EXCEPT !.curClose = @ + 1]
            /\ closeRaised' = [closeRaised EXCEPT !.cur = ~ok]
            /\ pc' = AfterCursorClose(~ok)
    /\ UNCHANGED <<secrets, env, caller, resolved, conn, openConns, pending,
                   outcome, page>>

\* finally: try: conn.close() except Exception: pass
CloseConn(ok) ==
    /\ pc = "close_conn"
    /\ conn' = "closed"
    /\ openConns' = openConns - 1
    /\ calls' = [calls EXCEPT !.connClose = @ + 1]
    /\ closeRaised' = [closeRaised EXCEPT !.conn = ~ok]
    /\ pc' = "return"
    /\ UNCHANGED <<secrets, env, caller, resolved, cur, pending, outcome, page>>

\* what the page shows for an outcome of run_query: lines 121-134 (Run Query
\* pressed) and 139-144 (preview)
Shown(who, o) ==
    IF who = "run"
    THEN IF o.kind = "error"
         THEN [blocking |-> FALSE, inline |-> "query_failed", stopped |-> TRUE]
         ELSE IF o.rows = 0
         THEN [blocking |-> FALSE, inline |-> "warning", stopped |-> FALSE]
         ELSE [blocking |-> FALSE, inline |-> "success", stopped |-> FALSE]
    ELSE IF o.kind = "error"
         THEN [blocking |-> FALSE, inline |-> "preview_failed", stopped |-> FALSE]
         ELSE IF o.rows = 0
         THEN [blocking |-> FALSE, inline |-> "info", stopped |-> FALSE]
         ELSE [blocking |-> FALSE, inline |-> "dataframe", stopped |-> FALSE]

\* run_query returns or raises to its caller; the page renders and the
\* evaluation ends
Return ==
    /\ pc = "return"
    /\ LET o == Delivered(pending, closeRaised) IN
       /\ outcome' = o
       /\ page' = IF caller = "client" THEN page ELSE Shown(caller, o)
    /\ pc' = "ended"
    /\ UNCHANGED <<secrets, env, caller, resolved, conn, cur, openConns, calls,
                   closeRaised, pending>>

Next ==
    \/ PageLoadBlocked
    \/ \E b \in BOOLEAN : PageLoad(b)
    \/ ClientCall
    \/ \E who \in {"app_get_secrets", "client_get_secrets"} : GetSecrets(who)
    \/ \E ok \in BOOLEAN : GetConnection(ok)
    \/ \E ok \in BOOLEAN : Cursor(ok)
    \/ \E ok \in BOOLEAN : Execute(ok)
    \/ \E ok \in BOOLEAN, rows \in {0, SomeRows} : Fetch(ok, rows)
    \/ \E ok \in BOOLEAN : CloseCursor(ok)
    \/ \E ok \in BOOLEAN : CloseConn(ok)
    \/ Return

Spec == Init /\ [][Next]_vars

-----------------------------------------------------------------------------
(* What a configuration holds, read off the configuration alone *)

IsTable(c) == c.tag \in {"dict", "mapping"}

\* tier 1: a "snowflake" section that is a table of fields
Tier1Usable == secrets.readable /\ secrets.snowflake.tag = "mapping"

Tier1Absent == secrets.readable /\ secrets.snowflake.tag = "absent"

\* the entry tier 2 designates: the one named "snowflake", else the first
Designated ==
    LET t == secrets.connections.entries IN
    IF HasEntry(t, "snowflake") THEN t[Entry(t, "snowflake")].val ELSE t[1].val

Tier2Present ==
    secrets.readable /\ IsTable(secrets.connections) /\ secrets.connections.entries # <<>>

Tier2Usable == Tier2Present /\ Designated.tag = "mapping"

EnvComplete == \A f \in Required : env[f] \notin {None, ""}

EnvRecord == [tag |-> "mapping", fields |-> env]

\* every value of the store has the shape the store's schema gives it
WellFormed ==
    /\ secrets.readable
    /\ secrets.snowflake.tag # "scalar"
    /\ secrets.connections.tag # "scalar"
    /\ \A i \in DOMAIN secrets.connections.entries :
          secrets.connections.entries[i].val.tag = "mapping"

\* the store holds neither key, or cannot be read
NoKeys ==
    \/ ~secrets.readable
    \/ secrets.snowflake.tag = "absent" /\ secrets.connections.tag = "absent"

\* _get_secrets has run and `resolved` is what it produced
HasResolved == calls.resolve = 1

InApp == ModuleOf(caller) = "streamlit_app"

\* a page evaluation of the app has ended
PageEnded == pc = "ended" /\ caller \in {"none", "run", "preview"}

-----------------------------------------------------------------------------
(* Claims *)

\* C1: in a well-formed configuration _get_secrets returns the record of the
\* highest-priority tier present (section "snowflake", then the connections
\* table, then the complete environment), and returns it whole: the returned
\* record equals that tier's record, so no field comes from a lower tier.
C1_PriorityOrder ==
    (HasResolved /\ WellFormed) =>
        /\ Tier1Usable => resolved = Ok(secrets.snowflake)
        /\ (~Tier1Usable /\ Tier2Usable) => resolved = Ok(Designated)
        /\ (~Tier1Usable /\ ~Tier2Usable /\ EnvComplete) => resolved = Ok(EnvRecord)

\* C2: with no "snowflake" section, a connections table that has an entry
\* named "snowflake" yields that entry wherever it stands in the table; a
\* non-empty table without such an entry yields its first entry.
C2_NamedConnectionWins ==
    (HasResolved /\ WellFormed /\ Tier1Absent /\ Tier2Present) =>
        LET t == secrets.connections.entries IN
        IF HasEntry(t, "snowflake")
        THEN resolved = Ok(t[Entry(t, "snowflake")].val)
        ELSE resolved = Ok(t[1].val)

C4_ReturnedRecordComplete ==
    (HasResolved /\ WellFormed /\ resolved.kind = "ok") =>
        \A f \in Required : resolved.val.fields[f] \notin {None, ""}

\* C4 as amended: only the environment record is checked.  A record taken from
\* the environment holds non-empty user, password and account; a record taken
\* from the secrets store is the stored value as it is; and the
\* credentials-not-found error is raised only with an incomplete environment.
C4_OnlyEnvironmentChecked ==
    HasResolved =>
        /\ (resolved.kind = "ok" /\ resolved.val.fields = env) =>
               \A f \in Required : resolved.val.fields[f] \notin {None, ""}
        /\ (resolved.kind = "ok" /\ resolved.val.fields # env) =>
               \/ resolved.val = secrets.snowflake
               \/ \E i \in DOMAIN secrets.connections.entries :
                      resolved.val = secrets.connections.entries[i].val
        /\ resolved.kind = "config_error" => ~EnvComplete

\* a "snowflake" section without a password is returned as it is
C4_Witness ==
    /\ HasResolved /\ InApp
    /\ resolved.kind = "ok"
    /\ resolved.val = secrets.snowflake
    /\ resolved.val.fields["user"] # None
    /\ resolved.val.fields["password"] = None

\* C5: when run_query is about to return or raise, and afterwards, a connection
\* that was acquired has had close invoked on it, and a cursor that was created
\* has had close invoked on it, whichever step of the body failed.
C5_ReleaseOnEveryExit ==
    (pc \in {"return", "ended"} /\ calls.run_query = 1) =>
        /\ conn # "unbound" => (conn = "closed" /\ calls.connClose = 1)
        /\ cur # "unbound" => (cur = "closed" /\ calls.curClose = 1)
        /\ (calls.connect = 1 /\ pending.at # "connect") => conn # "unbound"
        /\ (calls.cursor = 1 /\ pending.at # "cursor") => cur # "unbound"

C5_Witness ==
    /\ pc = "return"
    /\ pending = Error("execute")
    /\ conn = "closed" /\ cur = "closed"
    /\ calls.connClose = 1 /\ calls.curClose = 1

\* C6: run_query delivers the outcome of its body: the error of the step that
\* failed (resolution, connect, cursor, execute, fetch) or the fetched result,
\* also when cur.close() and/or conn.close() raised; and no step is repeated.
C6_CloseNeverMasks ==
    /\ \A k \in {"resolve", "connect", "cursor", "execute", "fetch"} : calls[k] <= 1
    /\ (pc = "ended" /\ calls.run_query = 1) =>
        /\ outcome = pending
        /\ outcome.kind \in {"result", "error"}
        /\ outcome.kind = "result" <=> (calls.fetch = 1 /\ pending.at = "none")
        /\ outcome.at # "close"
        /\ caller \in {"run", "preview"} =>
              (page.inline \in {"query_failed", "preview_failed"} <=> outcome.kind = "error")

C6_Witness ==
    /\ pc = "ended"
    /\ outcome = Error("execute")
    /\ closeRaised.cur /\ closeRaised.conn

\* C7: the resolver of streamlit_app.py never lets a failure of the secrets
\* store out.  When tier 1 cannot be read or converted it goes on with tier 2,
\* when tier 2 cannot be read or converted it goes on with tier 3, and the only
\* error it raises is the credentials-not-found error.
C7_LookupFailuresSwallowed ==
    (HasResolved /\ InApp) =>
        /\ resolved.kind \in {"ok", "config_error"}
        /\ (secrets.readable /\ secrets.snowflake.tag = "scalar" /\ Tier2Usable) =>
               resolved = Ok(Designated)
        /\ (~Tier1Usable /\ (~secrets.readable \/ secrets.connections.tag = "scalar"
                             \/ (Tier2Present /\ Designated.tag = "scalar"))) =>
               IF EnvComplete THEN resolved = Ok(EnvRecord)
               ELSE resolved.kind = "config_error"

\* tier 1 is a scalar, tier 2's designated entry is a scalar, tier 3 is returned
C7_Witness ==
    /\ HasResolved /\ InApp
    /\ secrets.snowflake.tag = "scalar"
    /\ Tier2Present /\ Designated.tag = "scalar"
    /\ resolved = Ok(EnvRecord)

\* no tier yields a record for streamlit_app.py's resolver
NoUsableTier == ~Tier1Usable /\ ~Tier2Usable /\ ~EnvComplete

\* C8 as stated: a page evaluation in which no usable credential tier is found
\* ends with the blocking page-level error, halted, with run_query never
\* entered and nothing reported inline.
C8_NoTierHaltsPage ==
    (PageEnded /\ NoUsableTier) =>
        /\ page.blocking /\ page.stopped
        /\ page.inline = "none"
        /\ calls.run_query = 0

\* C8 as amended: the blocking page-level error and the halt come when the
\* secrets store holds neither key or cannot be read.  When a key is there
\* and still no usable tier is found, run_query is entered, the resolver's
\* error comes back before any connection attempt and is reported inline as a
\* query or preview failure; only the Run Query branch then halts the script.
C8_GateThenInlineError ==
    (PageEnded /\ NoUsableTier) =>
        IF NoKeys
        THEN /\ page.blocking /\ page.stopped
             /\ page.inline = "none"
             /\ calls = NoCalls
        ELSE /\ ~page.blocking
             /\ outcome = Error("config")
             /\ calls.connect = 0
             /\ page.inline = (IF caller = "run" THEN "query_failed" ELSE "preview_failed")
             /\ page.stopped <=> caller = "run"

C8_Witness ==
    /\ PageEnded /\ NoUsableTier /\ ~NoKeys
    /\ caller = "preview"
    /\ page.inline = "preview_failed"
    /\ ~page.stopped

\* C9: at most one connection is open at any moment; within one evaluation
\* run_query is entered at most once and the query executed at most once; and
\* between evaluations no connection is open: the connection an evaluation
\* acquired has had close invoked on it by the time the evaluation ends.
\* (A connection counts as open from connect() until close() is invoked.)
C9_OneQueryNoRetainedConnection ==
    /\ openConns <= 1
    /\ calls.run_query <= 1 /\ calls.execute <= 1 /\ calls.connect <= 1
    /\ Between => openConns = 0
    /\ (pc = "ended" /\ calls.connect = 1 /\ conn # "unbound") =>
           conn = "closed" /\ calls.connClose = 1

\* a page evaluation ended after a cursor close that raised
C9_Witness ==
    /\ PageEnded
    /\ calls.execute = 1
    /\ closeRaised.cur
    /\ conn = "closed" /\ openConns = 0

\* C10: the gate reads the secrets store only.  With neither key in the store
\* (or a store that cannot be read) the page never enters run_query: the
\* evaluation ends blocked with no resolver call and no connection, whatever
\* the environment holds; and the page is blocked in no other configuration.
C10_GateIgnoresEnvironment ==
    /\ NoKeys => caller \notin {"run", "preview"}
    /\ (pc = "ended" /\ caller = "none") =>
          /\ NoKeys
          /\ page.blocking /\ page.stopped
          /\ calls = NoCalls
          /\ resolved = NotResolved
          /\ conn = "unbound" /\ openConns = 0
    /\ page.blocking => NoKeys

C10_Witness ==
    /\ pc = "ended" /\ caller = "none"
    /\ page.blocking
    /\ EnvComplete
    /\ calls = NoCalls

====
